---- MODULE Spec2Model ----
(***************************************************************************)
(* Minae Chess GUI (src/minae.py): the reader thread IOThread.run, the     *)
(* queued signals it emits, and the slots and the click handler of the     *)
(* GUI thread (MainWindow / BoardScene / MoveHistoryView).                 *)
(*                                                                         *)
(* Strings are sequences of one-character strings, so that the regular     *)
(* expressions and the character loops of the source can be modelled       *)
(* character by character.  A Python dict is a function on its key set.    *)
(***************************************************************************)
EXTENDS Integers, Sequences, FiniteSets, TLC

VARIABLES
    io_pc,                     \* IOThread.run: "input", "for", "done", "crashed"
    cmds,                      \* items of cmds.items() not yet iterated
    cmd,                       \* loop variable cmd (last key taken)
    val,                       \* loop variable val (last value taken)
    move_history,              \* IOThread.move_history
    out,                       \* lines the reader thread printed in its last step
    nlines,                    \* number of lines read so far
    queue,                     \* queued signal emissions, oldest first
    piece_items,               \* BoardScene.piece_items, as {pos: piece}
    highlighted_square_items,  \* BoardScene.highlighted_square_items, as a set of squares
    legal_moves,               \* BoardScene.legal_moves
    selected_pos,              \* BoardScene.selected_pos
    game_state,                \* the dict shown by GameStateView
    history_shown,             \* the text shown by MoveHistoryView
    app_running,               \* FALSE once QApplication.quit has run
    gui_out,                   \* what the GUI thread printed or raised in its last step
    stale                      \* selected_pos was set before the latest install

vars == << io_pc, cmds, cmd, val, move_history, out, nlines, queue, piece_items,
           highlighted_square_items, legal_moves, selected_pos, game_state,
           history_shown, app_running, gui_out, stale >>

io_vars == << io_pc, cmds, cmd, val, move_history, out, nlines >>

gui_vars == << piece_items, highlighted_square_items, legal_moves, selected_pos,
               game_state, history_shown, app_running, gui_out, stale >>

----------------------------------------------------------------------------
(* Characters and squares *)

None == << >>

EmptyDict == [k \in {} |-> {}]

FileChars == {"a", "b", "c", "d", "e", "f", "g", "h"}

Digits18 == {"1", "2", "3", "4", "5", "6", "7", "8"}

Digits19 == Digits18 \cup {"9"}

Digits09 == Digits19 \cup {"0"}

PieceLetters == {"P", "R", "N", "B", "Q", "K", "p", "r", "n", "b", "q", "k"}

\* the character class [PRNBQKprnbqk1-8]
RankChars == PieceLetters \cup Digits18

\* the 64 two-character tokens [a-h][1-8]
Squares == {<<f, r>> : f \in FileChars, r \in Digits18}

LowerCase == << "a", "b", "c", "d", "e", "f", "g", "h", "i", "j", "k", "l", "m",
                "n", "o", "p", "q", "r", "s", "t", "u", "v", "w", "x", "y", "z" >>

DigitStr == << "0", "1", "2", "3", "4", "5", "6", "7", "8", "9" >>

\* chr(ord('a') + k); past 'z' every character is written "{"
ChrFromA(k) == IF k \in 0..25 THEN LowerCase[k + 1] ELSE "{"

\* chr(ord('0') + n); outside '0'..'9' every character is written "/"
ChrFromZero(n) == IF n \in 0..9 THEN DigitStr[n + 1] ELSE "/"

\* int(c) for a digit character
IntOf(c) == CHOOSE n \in 0..9 : DigitStr[n + 1] = c

\* s[i] of a string, "" past its end
At(s, i) == IF i \in 1..Len(s) THEN s[i] ELSE ""

\* d[k] = v on a dict
DictSet(d, k, v) == (k :> v) @@ d

----------------------------------------------------------------------------
(* Regular expressions of the source, matched from the start of the string *)

\* length of the longest run of characters of class C from index i, at most max
RECURSIVE Run(_, _, _, _)
Run(s, i, C, max) ==
    IF max = 0 \/ i > Len(s) \/ s[i] \notin C THEN 0
    ELSE 1 + Run(s, i + 1, C, max - 1)

\* an optional single character c? at index i: the index after it
Opt(s, i, c) == IF At(s, i) = c THEN i + 1 ELSE i

NoMatch == [ok |-> FALSE, group |-> << >>, next |-> 0]

\* groups 1-8: ([PRNBQKprnbqk1-8]{1,8}) followed by "/" (by " " after rank 1)
RECURSIVE MatchRanks(_, _, _, _)
MatchRanks(s, i, g, acc) ==
    LET n == Run(s, i, RankChars, 8)
        sep == IF g = 8 THEN " " ELSE "/"
        grp == Append(acc, SubSeq(s, i, i + n - 1))
    IN  IF n >= 1 /\ At(s, i + n) = sep
        THEN IF g = 8 THEN [ok |-> TRUE, group |-> grp, next |-> i + n + 1]
             ELSE MatchRanks(s, i + n + 1, g + 1, grp)
        ELSE NoMatch

\* group 9: ([wb]) followed by " "
MatchColor(s, i) ==
    IF At(s, i) \in {"w", "b"} /\ At(s, i + 1) = " "
    THEN [ok |-> TRUE, group |-> << <<s[i]>> >>, next |-> i + 2]
    ELSE NoMatch

\* group 10: (-|K?Q?k?q?) followed by " "
MatchCastling(s, i) ==
    LET j == Opt(s, Opt(s, Opt(s, Opt(s, i, "K"), "Q"), "k"), "q")
    IN  IF At(s, i) = "-" /\ At(s, i + 1) = " "
        THEN [ok |-> TRUE, group |-> << <<"-">> >>, next |-> i + 2]
        ELSE IF At(s, j) = " "
        THEN [ok |-> TRUE, group |-> << SubSeq(s, i, j - 1) >>, next |-> j + 1]
        ELSE NoMatch

\* groups 11-13: (-|([a-h])([1-8])) followed by " "
MatchEnPassant(s, i) ==
    IF At(s, i) = "-" /\ At(s, i + 1) = " "
    THEN [ok |-> TRUE, group |-> << <<"-">>, None, None >>, next |-> i + 2]
    ELSE IF At(s, i) \in FileChars /\ At(s, i + 1) \in Digits18 /\ At(s, i + 2) = " "
    THEN [ok |-> TRUE, group |-> << SubSeq(s, i, i + 1), <<s[i]>>, <<s[i + 1]>> >>,
          next |-> i + 3]
    ELSE NoMatch

\* group 14: (0|[1-9][0-9]*) followed by " "
MatchHalfMove(s, i) ==
    LET n == Run(s, i + 1, Digits09, Len(s))
    IN  IF At(s, i) = "0" /\ At(s, i + 1) = " "
        THEN [ok |-> TRUE, group |-> << <<"0">> >>, next |-> i + 2]
        ELSE IF At(s, i) \in Digits19 /\ At(s, i + 1 + n) = " "
        THEN [ok |-> TRUE, group |-> << SubSeq(s, i, i + n) >>, next |-> i + n + 2]
        ELSE NoMatch

\* group 15: ([1-9][0-9]*), greedy, at the end of the pattern
MatchFullMove(s, i) ==
    LET n == Run(s, i + 1, Digits09, Len(s))
    IN  IF At(s, i) \in Digits19
        THEN [ok |-> TRUE, group |-> << SubSeq(s, i, i + n) >>, next |-> i + n + 1]
        ELSE NoMatch

\* re.compile(FEN_REGEX).match(s): ok, group[1..15], whole = group()
FEN_REGEX(s) ==
    LET r == MatchRanks(s, 1, 1, << >>)
        c == IF r.ok THEN MatchColor(s, r.next) ELSE NoMatch
        k == IF c.ok THEN MatchCastling(s, c.next) ELSE NoMatch
        e == IF k.ok THEN MatchEnPassant(s, k.next) ELSE NoMatch
        h == IF e.ok THEN MatchHalfMove(s, e.next) ELSE NoMatch
        f == IF h.ok THEN MatchFullMove(s, h.next) ELSE NoMatch
    IN  IF f.ok
        THEN [ok |-> TRUE,
              group |-> r.group \o c.group \o k.group \o e.group \o h.group \o f.group,
              whole |-> SubSeq(s, 1, f.next - 1)]
        ELSE [ok |-> FALSE, group |-> << >>, whole |-> << >>]

----------------------------------------------------------------------------
(* FEN validation and conversion *)

\* the inner loop of __is_minimally_valid_fen over the characters of one rank
RECURSIVE RankLoop(_, _, _, _)
RankLoop(tok, k, prev_was_number, sum_for_rank) ==
    IF k > Len(tok) THEN [ok |-> TRUE, sum |-> sum_for_rank]
    ELSE IF tok[k] \in Digits18
         THEN IF prev_was_number THEN [ok |-> FALSE, sum |-> sum_for_rank]
              ELSE RankLoop(tok, k + 1, TRUE, sum_for_rank + IntOf(tok[k]))
         ELSE RankLoop(tok, k + 1, FALSE, sum_for_rank + 1)

\* RankIsValid with the sum test written as "at most 8"
RankIsValid_AtMost8(tok) ==
    LET r == RankLoop(tok, 1, FALSE, 0) IN r.ok /\ r.sum <= 8

\* the body of the loop over g
RankIsValid(tok) ==
    LET r == RankLoop(tok, 1, FALSE, 0) IN r.ok /\ r.sum = 8

is_minimally_valid_fen(fen_match) ==
    /\ \A g \in 1..8 : RankIsValid(fen_match.group[g])
    /\ fen_match.group[10] # << >>

\* SquaresLoop with a digit advancing the file by one
RECURSIVE SquaresLoop_DigitIsOne(_, _, _, _, _)
SquaresLoop_DigitIsOne(tok, k, file, rank, populated_squares) ==
    IF k > Len(tok) THEN populated_squares
    ELSE IF tok[k] \in Digits18
         THEN SquaresLoop_DigitIsOne(tok, k + 1, file + 1, rank, populated_squares)
         ELSE SquaresLoop_DigitIsOne(tok, k + 1, file + 1, rank,
                                     DictSet(populated_squares, <<ChrFromA(file), rank>>, tok[k]))

\* the inner loop of __fen_to_populated_squares; file is ord(file) - ord('a')
RECURSIVE SquaresLoop(_, _, _, _, _)
SquaresLoop(tok, k, file, rank, populated_squares) ==
    IF k > Len(tok) THEN populated_squares
    ELSE IF tok[k] \in Digits18
         THEN SquaresLoop(tok, k + 1, file + IntOf(tok[k]), rank, populated_squares)
         ELSE SquaresLoop(tok, k + 1, file + 1, rank,
                          DictSet(populated_squares, <<ChrFromA(file), rank>>, tok[k]))

\* RankOfGroup counting the ranks from the bottom of the board
RankOfGroup_FromBottom(g) == ChrFromZero(g)

\* rank = chr(ord('9') - g)
RankOfGroup(g) == ChrFromZero(9 - g)

RECURSIVE GroupsLoop(_, _, _)
GroupsLoop(fen_match, g, populated_squares) ==
    IF g > 8 THEN populated_squares
    ELSE GroupsLoop(fen_match, g + 1,
                    SquaresLoop(fen_match.group[g], 1, 0, RankOfGroup(g), populated_squares))

fen_to_populated_squares(fen_match) == GroupsLoop(fen_match, 1, [k \in {} |-> ""])

\* GameStateOf with the two counters taken from each other's group
GameStateOf_CountersSwapped(fen_match) ==
    [Turn |-> fen_match.group[9],
     Castling |-> fen_match.group[10],
     EnPassant |-> fen_match.group[11],
     HalfMove |-> fen_match.group[15],
     FullMove |-> fen_match.group[14]]

\* the dict emitted with set_game_state_signal
GameStateOf(fen_match) ==
    [Turn |-> fen_match.group[9],
     Castling |-> fen_match.group[10],
     EnPassant |-> fen_match.group[11],
     HalfMove |-> fen_match.group[14],
     FullMove |-> fen_match.group[15]]

\* FenAccepted without the comparison of the match with the whole value
FenAccepted_PrefixMatch(s) ==
    LET fen_match == FEN_REGEX(s)
    IN  fen_match.ok /\ is_minimally_valid_fen(fen_match)

\* the condition of the 'set fen' branch
FenAccepted(s) ==
    LET fen_match == FEN_REGEX(s)
    IN  fen_match.ok /\ fen_match.whole = s /\ is_minimally_valid_fen(fen_match)

----------------------------------------------------------------------------
(* JSON values and the signals *)

StrVal(s) == [t |-> "str", s |-> s, l |-> << >>]

ListVal(l) == [t |-> "list", s |-> << >>, l |-> l]

NullVal == [t |-> "null", s |-> << >>, l |-> << >>]

Item(c, v) == [cmd |-> c, val |-> v]

NoPosition == [k \in {} |-> ""]

NoGameState == [Turn |-> << >>, Castling |-> << >>, EnPassant |-> << >>,
                HalfMove |-> << >>, FullMove |-> << >>]

\* one queued emission; the fields a signal does not carry stay empty
Emit(sig, pos, gs, lm, mh) == [sig |-> sig, pos |-> pos, gs |-> gs, lm |-> lm, mh |-> mh]

set_position_signal(d) == Emit("set_position", d, NoGameState, EmptyDict, << >>)

set_game_state_signal(d) == Emit("set_game_state", NoPosition, d, EmptyDict, << >>)

set_legal_moves_signal(d) == Emit("set_legal_moves", NoPosition, NoGameState, d, << >>)

set_move_history_signal(l) == Emit("set_move_history", NoPosition, NoGameState, EmptyDict, l)

quit_app_signal == Emit("quit", NoPosition, NoGameState, EmptyDict, << >>)

\* the characters of a string, as iterating over it yields them
CharsOf(s) == [i \in 1..Len(s) |-> << s[i] >>]

----------------------------------------------------------------------------
(* 'set legal moves' *)

\* re.compile(r'([a-h][1-8])([a-h][1-8])').match(move)
MOVE_REGEX(move) ==
    IF /\ At(move, 1) \in FileChars /\ At(move, 2) \in Digits18
       /\ At(move, 3) \in FileChars /\ At(move, 4) \in Digits18
    THEN [ok |-> TRUE, group |-> << SubSeq(move, 1, 2), SubSeq(move, 3, 4) >>,
          whole |-> SubSeq(move, 1, 4)]
    ELSE [ok |-> FALSE, group |-> << >>, whole |-> << >>]

\* MoveStep with a repeated source replacing its targets
MoveStep_Overwrite(acc, move) ==
    LET move_match == MOVE_REGEX(move)
    IN  IF ~move_match.ok \/ move_match.whole # move
        THEN [legal_moves |-> acc.legal_moves,
              printed |-> Append(acc.printed, [msg |-> "Unrecognized move", arg |-> move])]
        ELSE [legal_moves |-> DictSet(acc.legal_moves, move_match.group[1], {move_match.group[2]}),
              printed |-> acc.printed]

\* one iteration of the loop over the moves
MoveStep(acc, move) ==
    LET move_match == MOVE_REGEX(move)
        src == move_match.group[1]
        dst == move_match.group[2]
    IN  IF ~move_match.ok \/ move_match.whole # move
        THEN [legal_moves |-> acc.legal_moves,
              printed |-> Append(acc.printed, [msg |-> "Unrecognized move", arg |-> move])]
        ELSE IF src \in DOMAIN acc.legal_moves
        THEN [legal_moves |-> DictSet(acc.legal_moves, src, acc.legal_moves[src] \cup {dst}),
              printed |-> acc.printed]
        ELSE [legal_moves |-> DictSet(acc.legal_moves, src, {dst}),
              printed |-> acc.printed]

RECURSIVE MovesLoop(_, _, _)
MovesLoop(moves, i, acc) ==
    IF i > Len(moves) THEN acc
    ELSE MovesLoop(moves, i + 1, MoveStep(acc, moves[i]))

\* the dict built by the 'set legal moves' branch, and what it printed
BuildLegalMoves(moves) ==
    MovesLoop(moves, 1, [legal_moves |-> EmptyDict, printed |-> << >>])

----------------------------------------------------------------------------
(* Bounds *)

\* the reader thread reads at most this many lines
MaxLines == 3

\* a 'set legal moves' list has at most this many tokens
MaxMoves == 3

\* the enumerated move histories have at most this many half-moves
MaxLog == 3

----------------------------------------------------------------------------
(* Construction *)

\* IOThread.__init__, before the first input()
IOInit ==
    /\ io_pc = "input"
    /\ cmds = << >>
    /\ cmd = ""
    /\ val = NullVal
    /\ move_history = << >>
    /\ out = << >>
    /\ nlines = 0

\* BoardScene.__init__ and the empty views of MainWindow.__init__
GuiInit ==
    /\ piece_items = NoPosition
    /\ highlighted_square_items = {}
    /\ legal_moves = EmptyDict
    /\ selected_pos = None
    /\ game_state = NoGameState
    /\ history_shown = << >>
    /\ app_running = TRUE
    /\ gui_out = << >>
    /\ stale = FALSE

----------------------------------------------------------------------------
(* IOThread.run: reading a line *)

Printed(msg, arg) == [msg |-> msg, arg |-> arg]

\* json.loads gives a dict: the for loop starts over its items
ReadObject(line) ==
    /\ io_pc = "input"
    /\ nlines < MaxLines
    /\ cmds' = line
    /\ io_pc' = IF line = << >> THEN "input" ELSE "for"
    /\ out' = << >>
    /\ nlines' = nlines + 1
    /\ UNCHANGED << cmd, val, move_history, queue >>
    /\ UNCHANGED gui_vars

\* json.loads raises JSONDecodeError: print(err); continue
ReadInvalidJson ==
    /\ io_pc = "input"
    /\ nlines < MaxLines
    /\ out' = << Printed("JSONDecodeError", << >>) >>
    /\ nlines' = nlines + 1
    /\ UNCHANGED << io_pc, cmds, cmd, val, move_history, queue >>
    /\ UNCHANGED gui_vars

\* json.loads gives a list, a number, a string or null: cmds.items() raises
\* AttributeError, which nothing catches, and run() ends
ReadNonObject ==
    /\ io_pc = "input"
    /\ nlines < MaxLines
    /\ io_pc' = "crashed"
    /\ out' = << >>
    /\ nlines' = nlines + 1
    /\ UNCHANGED << cmds, cmd, val, move_history, queue >>
    /\ UNCHANGED gui_vars

\* input() raises EOFError at end of input, which nothing catches, and run() ends
ReadEOF ==
    /\ io_pc = "input"
    /\ nlines < MaxLines
    /\ io_pc' = "crashed"
    /\ out' = << >>
    /\ UNCHANGED << cmds, cmd, val, move_history, nlines, queue >>
    /\ UNCHANGED gui_vars

----------------------------------------------------------------------------
(* IOThread.run: one iteration of the loop over cmds.items() *)

\* the loop takes the next item; c is the branch that handles it
Take(c) ==
    /\ io_pc = "for"
    /\ cmds # << >>
    /\ c
    /\ cmd' = Head(cmds).cmd
    /\ val' = Head(cmds).val
    /\ cmds' = Tail(cmds)
    /\ nlines' = nlines
    /\ UNCHANGED gui_vars

\* where run() is after an iteration that neither raised nor returned
AfterItem == IF Tail(cmds) = << >> THEN "input" ELSE "for"

\* the 'set fen' branch; re.match raises TypeError on a value that is no string
KeySetFen ==
    /\ Take(Head(cmds).cmd = "set fen")
    /\ LET v == Head(cmds).val
           fen_match == FEN_REGEX(v.s)
       IN  IF v.t # "str"
           THEN io_pc' = "crashed" /\ queue' = queue
           ELSE /\ io_pc' = AfterItem
                /\ queue' = IF FenAccepted(v.s)
                            THEN queue \o << set_position_signal(fen_to_populated_squares(fen_match)),
                                             set_game_state_signal(GameStateOf(fen_match)) >>
                            ELSE queue
    /\ out' = << >>
    /\ UNCHANGED move_history

\* self.move_history += val: a list is appended, a string adds its characters,
\* None raises TypeError
HistoryAppend(h, v) == IF v.t = "list" THEN h \o v.l ELSE h \o CharsOf(v.s)

KeyAppendHistory ==
    /\ Take(Head(cmds).cmd = "append history")
    /\ LET v == Head(cmds).val
       IN  IF v.t = "null"
           THEN io_pc' = "crashed" /\ UNCHANGED << move_history, queue >>
           ELSE /\ io_pc' = AfterItem
                /\ move_history' = HistoryAppend(move_history, v)
                /\ queue' = Append(queue, set_move_history_signal(move_history'))
    /\ out' = << >>

\* HistoryPop removing the first element
HistoryPop_First(h) == SubSeq(h, 2, Len(h))

\* self.move_history.pop()
HistoryPop(h) == SubSeq(h, 1, Len(h) - 1)

\* KeyUndoHistory removing the last half-move without emitting
KeyUndoHistory_Silent ==
    /\ Take(Head(cmds).cmd = "undo history")
    /\ io_pc' = AfterItem
    /\ move_history' = HistoryPop(move_history)
    /\ queue' = queue
    /\ out' = << >>

KeyUndoHistory ==
    /\ Take(Head(cmds).cmd = "undo history")
    /\ io_pc' = AfterItem
    /\ IF Len(move_history) > 0
       THEN /\ move_history' = HistoryPop(move_history)
            /\ queue' = Append(queue, set_move_history_signal(move_history'))
       ELSE UNCHANGED << move_history, queue >>
    /\ out' = << >>

\* self.move_history = val, for the list values the inputs give
HistorySet(h, v) == v.l

KeySetHistory ==
    /\ Take(Head(cmds).cmd = "set history" /\ Head(cmds).val.t = "list")
    /\ io_pc' = AfterItem
    /\ move_history' = HistorySet(move_history, Head(cmds).val)
    /\ queue' = Append(queue, set_move_history_signal(move_history'))
    /\ out' = << >>

\* the 'set legal moves' branch; iterating over None raises TypeError
KeySetLegalMoves ==
    /\ Take(Head(cmds).cmd = "set legal moves")
    /\ LET v == Head(cmds).val
           built == BuildLegalMoves(IF v.t = "list" THEN v.l ELSE CharsOf(v.s))
       IN  IF v.t = "null"
           THEN io_pc' = "crashed" /\ queue' = queue /\ out' = << >>
           ELSE /\ io_pc' = AfterItem
                /\ queue' = Append(queue, set_legal_moves_signal(built.legal_moves))
                /\ out' = built.printed
    /\ UNCHANGED move_history

\* KeyQuit going on with the loop instead of returning
KeyQuit_NoReturn ==
    /\ Take(Head(cmds).cmd = "quit")
    /\ io_pc' = AfterItem
    /\ queue' = Append(queue, quit_app_signal)
    /\ out' = << >>
    /\ UNCHANGED move_history

\* the 'quit' branch: emit and return
KeyQuit ==
    /\ Take(Head(cmds).cmd = "quit")
    /\ io_pc' = "done"
    /\ queue' = Append(queue, quit_app_signal)
    /\ out' = << >>
    /\ UNCHANGED move_history

CommandNames == {"set fen", "append history", "undo history", "set history",
                 "set legal moves", "quit"}

\* the else branch
KeyUnrecognized ==
    /\ Take(Head(cmds).cmd \notin CommandNames)
    /\ io_pc' = AfterItem
    /\ out' = << Printed("Error: Unrecognized command", << >>) >>
    /\ UNCHANGED << move_history, queue >>

----------------------------------------------------------------------------
(* GUI thread: the slots run by the queued signals, oldest emission first *)

\* Deliver taking the newest queued emission
Deliver_Newest(sig) ==
    /\ app_running
    /\ queue # << >>
    /\ queue[Len(queue)].sig = sig
    /\ queue' = SubSeq(queue, 1, Len(queue) - 1)
    /\ gui_out' = << >>
    /\ UNCHANGED io_vars

\* the event loop delivers the oldest queued emission of signal sig
Deliver(sig) ==
    /\ app_running
    /\ queue # << >>
    /\ Head(queue).sig = sig
    /\ queue' = Tail(queue)
    /\ gui_out' = << >>
    /\ UNCHANGED io_vars

\* BoardScene.set_position: the dict of pieces shown afterwards
set_position(populated_squares) == populated_squares

\* MainWindow.set_position -> BoardView.set_position -> BoardScene.set_position
SlotSetPosition ==
    /\ Deliver("set_position")
    /\ highlighted_square_items' = {}
    /\ piece_items' = set_position(Head(queue).pos)
    /\ stale' = (selected_pos # None)
    /\ UNCHANGED << legal_moves, selected_pos, game_state, history_shown, app_running >>

\* BoardScene.set_legal_moves: the value of self.legal_moves afterwards
set_legal_moves(new_legal_moves) == new_legal_moves

\* MainWindow.set_legal_moves -> BoardView.set_legal_moves -> BoardScene.set_legal_moves
SlotSetLegalMoves ==
    /\ Deliver("set_legal_moves")
    /\ legal_moves' = set_legal_moves(Head(queue).lm)
    /\ stale' = (selected_pos # None)
    /\ UNCHANGED << piece_items, highlighted_square_items, selected_pos, game_state,
                    history_shown, app_running >>

\* MainWindow.set_game_state -> GameStateView.set_game_state
SlotSetGameState ==
    /\ Deliver("set_game_state")
    /\ game_state' = Head(queue).gs
    /\ UNCHANGED << piece_items, highlighted_square_items, legal_moves, selected_pos,
                    history_shown, app_running, stale >>

\* str(n) of a natural number
RECURSIVE str(_)
str(n) ==
    IF n < 10 THEN << DigitStr[n + 1] >>
    ELSE str(n \div 10) \o << DigitStr[(n % 10) + 1] >>

\* the locals of MoveHistoryView.set_move_history before its loop
RenderStart == [text |-> << >>, half_move_number |-> 1, full_move_number |-> 1]

\* RenderStep never incrementing full_move_number
RenderStep_NoIncrement(st, half_move) ==
    IF st.half_move_number % 2 = 1
    THEN [st EXCEPT !.text = @ \o str(st.full_move_number) \o << ".", " " >> \o half_move,
                    !.half_move_number = @ + 1]
    ELSE [st EXCEPT !.text = @ \o << " " >> \o half_move \o << "\n" >>,
                    !.half_move_number = @ + 1]

\* one iteration of the loop over move_history: the locals afterwards
RenderStep(st, half_move) ==
    IF st.half_move_number % 2 = 1
    THEN [st EXCEPT !.text = @ \o str(st.full_move_number) \o << ".", " " >> \o half_move,
                    !.half_move_number = @ + 1]
    ELSE [st EXCEPT !.text = @ \o << " " >> \o half_move \o << "\n" >>,
                    !.half_move_number = @ + 1,
                    !.full_move_number = @ + 1]

RECURSIVE RenderLoop(_, _, _)
RenderLoop(move_history_arg, i, st) ==
    IF i > Len(move_history_arg) THEN st
    ELSE RenderLoop(move_history_arg, i + 1, RenderStep(st, move_history_arg[i]))

\* MoveHistoryView.set_move_history: the text given to text_item.setText
set_move_history(move_history_arg) == RenderLoop(move_history_arg, 1, RenderStart).text

\* MainWindow.set_move_history -> MoveHistoryView.set_move_history
SlotSetMoveHistory ==
    /\ Deliver("set_move_history")
    /\ history_shown' = set_move_history(Head(queue).mh)
    /\ UNCHANGED << piece_items, highlighted_square_items, legal_moves, selected_pos,
                    game_state, app_running, stale >>

\* QApplication.quit, connected with Qt.QueuedConnection
SlotQuit ==
    /\ Deliver("quit")
    /\ app_running' = FALSE
    /\ UNCHANGED << piece_items, highlighted_square_items, legal_moves, selected_pos,
                    game_state, history_shown, stale >>

----------------------------------------------------------------------------
(* GUI thread: a click on the board *)

SQUARE_WIDTH == 45

\* BoardScene.__x_y_to_pos, for scene coordinates x, y >= 0
x_y_to_pos(x, y) ==
    << ChrFromA(x \div SQUARE_WIDTH), ChrFromZero(8 - (y \div SQUARE_WIDTH)) >>

\* BoardScene.highlight_squares: the squares that carry a highlight item afterwards
highlight_squares(squares) == squares

Moved(from, to) == [ev |-> "Moved", from |-> from, to |-> to]

\* self.legal_moves[self.selected_pos] of a key the dict does not have
KeyError == [ev |-> "KeyError", from |-> None, to |-> None]

After(sel, lm, hl, o) == [selected_pos |-> sel, legal_moves |-> lm, highlighted |-> hl, gui_out |-> o]

\* ClickSelected keeping the index when a move is committed
ClickSelected_KeepsIndex(sel, lm, hl, pos) ==
    IF pos = sel
    THEN After(None, lm, highlight_squares({}), << >>)
    ELSE IF sel \notin DOMAIN lm
    THEN After(sel, lm, hl, << KeyError >>)
    ELSE IF pos \in lm[sel]
    THEN After(None, lm, highlight_squares({}), << Moved(sel, pos) >>)
    ELSE IF pos \in DOMAIN lm
    THEN After(pos, lm, highlight_squares(lm[pos] \cup {pos}), << >>)
    ELSE After(None, lm, highlight_squares({}), << >>)

\* ClickSelected with the test for a key of the index placed before the test
\* for a target of the selected square
ClickSelected_KeyFirst(sel, lm, hl, pos) ==
    IF pos = sel
    THEN After(None, lm, highlight_squares({}), << >>)
    ELSE IF sel \notin DOMAIN lm
    THEN After(sel, lm, hl, << KeyError >>)
    ELSE IF pos \in DOMAIN lm
    THEN After(pos, lm, highlight_squares(lm[pos] \cup {pos}), << >>)
    ELSE IF pos \in lm[sel]
    THEN After(None, EmptyDict, highlight_squares({}), << Moved(sel, pos) >>)
    ELSE After(None, lm, highlight_squares({}), << >>)

\* the branch of mousePressEvent taken when a square is selected
ClickSelected(sel, lm, hl, pos) ==
    IF pos = sel
    THEN After(None, lm, highlight_squares({}), << >>)
    ELSE IF sel \notin DOMAIN lm
    THEN After(sel, lm, hl, << KeyError >>)
    ELSE IF pos \in lm[sel]
    THEN After(None, EmptyDict, highlight_squares({}), << Moved(sel, pos) >>)
    ELSE IF pos \in DOMAIN lm
    THEN After(pos, lm, highlight_squares(lm[pos] \cup {pos}), << >>)
    ELSE After(None, lm, highlight_squares({}), << >>)

\* ClickUnselected selecting the clicked square whether or not it is a key
ClickUnselected_AnySquare(lm, hl, pos) ==
    IF pos \in DOMAIN lm
    THEN After(pos, lm, highlight_squares(lm[pos] \cup {pos}), << >>)
    ELSE After(pos, lm, highlight_squares({pos}), << >>)

\* the branch of mousePressEvent taken when no square is selected
ClickUnselected(lm, hl, pos) ==
    IF pos \in DOMAIN lm
    THEN After(pos, lm, highlight_squares(lm[pos] \cup {pos}), << >>)
    ELSE After(None, lm, hl, << >>)

\* BoardScene.mousePressEvent at scene position (x, y)
mousePressEvent(x, y) ==
    LET pos == x_y_to_pos(x, y)
        r == IF selected_pos # None
             THEN ClickSelected(selected_pos, legal_moves, highlighted_square_items, pos)
             ELSE ClickUnselected(legal_moves, highlighted_square_items, pos)
    IN  /\ app_running
        /\ selected_pos' = r.selected_pos
        /\ legal_moves' = r.legal_moves
        /\ highlighted_square_items' = r.highlighted
        /\ gui_out' = r.gui_out
        /\ stale' = IF r.gui_out = << KeyError >> THEN stale ELSE FALSE
        /\ UNCHANGED << piece_items, game_state, history_shown, app_running, queue >>
        /\ UNCHANGED io_vars

----------------------------------------------------------------------------
(* Inputs *)

RECURSIVE JoinWith(_, _)
JoinWith(parts, sep) ==
    IF Len(parts) = 0 THEN << >>
    ELSE IF Len(parts) = 1 THEN parts[1]
    ELSE parts[1] \o << sep >> \o JoinWith(Tail(parts), sep)

\* the text of a FEN with the given fields
FenText(ranks, color, castling, ep, half, full) ==
    JoinWith(<< JoinWith(ranks, "/"), color, castling, ep, half, full >>, " ")

StartRanks ==
    << << "r", "n", "b", "q", "k", "b", "n", "r" >>,
       << "p", "p", "p", "p", "p", "p", "p", "p" >>,
       << "8" >>, << "8" >>, << "8" >>, << "8" >>,
       << "P", "P", "P", "P", "P", "P", "P", "P" >>,
       << "R", "N", "B", "Q", "K", "B", "N", "R" >> >>

\* rnbqkbnr/pppppppp/8/8/8/8/PPPPPPPP/RNBQKBNR w KQkq - 0 1
StartFen ==
    FenText(StartRanks, << "w" >>, << "K", "Q", "k", "q" >>, << "-" >>, << "0" >>, << "1" >>)

\* rnbqkbnr/pppppppp/8/8/4P3/8/PPPP1PPP/RNBQKBNR b KQkq e3 0 1
AfterE4Fen ==
    FenText([StartRanks EXCEPT ![5] = << "4", "P", "3" >>,
                               ![7] = << "P", "P", "P", "P", "1", "P", "P", "P" >>],
            << "b" >>, << "K", "Q", "k", "q" >>, << "e", "3" >>, << "0" >>, << "1" >>)

\* 44/8/8/8/8/8/8/8 w - - 0 1
SplitDigitsFen ==
    FenText([g \in 1..8 |-> IF g = 1 THEN << "4", "4" >> ELSE << "8" >>],
            << "w" >>, << "-" >>, << "-" >>, << "0" >>, << "1" >>)

\* the start position followed by one more character
TrailingTextFen == StartFen \o << "x" >>

\* rnbqkbnr/pppppppp/8/8/8/8/PPPPPPPP/RNBQKBNR w  - 0 1
NoCastlingFen ==
    FenText(StartRanks, << "w" >>, << >>, << "-" >>, << "0" >>, << "1" >>)

e2 == << "e", "2" >>

e3 == << "e", "3" >>

e4 == << "e", "4" >>

e5 == << "e", "5" >>

g1 == << "g", "1" >>

f3 == << "f", "3" >>

\* ["e2e4", "e4e5", "g1f3"]
MovesA == << e2 \o e4, e4 \o e5, g1 \o f3 >>

\* ["g1f3", "xx"]
MovesB == << g1 \o f3, << "x", "x" >> >>

San_e4 == << "e", "4" >>

San_e5 == << "e", "5" >>

San_Nf3 == << "N", "f", "3" >>

\* the lines of the reader thread's input that parse to a JSON object
Lines ==
    { << Item("set fen", StrVal(StartFen)) >>,
      << Item("set fen", StrVal(SplitDigitsFen)) >>,
      << Item("set fen", StrVal(TrailingTextFen)) >>,
      << Item("set fen", StrVal(NoCastlingFen)), Item("undo history", NullVal) >>,
      << Item("set fen", NullVal), Item("append history", ListVal(<< San_e4 >>)) >>,
      << Item("set legal moves", ListVal(MovesA)) >>,
      << Item("set legal moves", ListVal(MovesB)) >>,
      << Item("append history", ListVal(<< San_e4, San_e5 >>)) >>,
      << Item("undo history", NullVal) >>,
      << Item("set history", ListVal(<< San_Nf3 >>)) >>,
      << Item("foo", NullVal), Item("set fen", StrVal(AfterE4Fen)) >>,
      << Item("quit", NullVal), Item("set history", ListVal(<< San_e4 >>)) >> }

\* scene positions inside e2, e4, g1, f3 and a8
ClickPoints == { << 202, 292 >>, << 202, 202 >>, << 292, 337 >>, << 247, 247 >>, << 0, 0 >> }

----------------------------------------------------------------------------
(* The program *)

Init == IOInit /\ GuiInit /\ queue = << >>

Click == \E p \in ClickPoints : mousePressEvent(p[1], p[2])

Next ==
    \/ \E line \in Lines : ReadObject(line)
    \/ ReadInvalidJson
    \/ ReadNonObject
    \/ ReadEOF
    \/ KeySetFen
    \/ KeyAppendHistory
    \/ KeyUndoHistory
    \/ KeySetHistory
    \/ KeySetLegalMoves
    \/ KeyQuit
    \/ KeyUnrecognized
    \/ SlotSetPosition
    \/ SlotSetGameState
    \/ SlotSetLegalMoves
    \/ SlotSetMoveHistory
    \/ SlotQuit
    \/ Click

Spec == Init /\ [][Next]_vars

----------------------------------------------------------------------------
(* Selection and clicks *)

\* a step of the GUI thread that installs a Position or a LegalMoveIndex
Install == SlotSetPosition \/ SlotSetLegalMoves

\* C1: right after a new Position or a new LegalMoveIndex is installed, the
\* selection state is NoSelection and the highlight set is empty.
C1_InstallResetsSelection ==
    [][Install => (selected_pos' = None /\ highlighted_square_items' = {})]_vars

\* what a click at pos does when nothing is selected, as the transition table has it
FromNoSelection(lm, pos) ==
    IF pos \in DOMAIN lm
    THEN [selected_pos |-> pos, highlighted |-> lm[pos] \cup {pos}]
    ELSE [selected_pos |-> None, highlighted |-> {}]

\* C2: once an install has been applied while a square o was selected, a later
\* click uses neither o nor the old index: it acts as a click in NoSelection
\* and commits no move from o.
C2_NoClickUsesStaleOrigin ==
    [][\A p \in ClickPoints :
          (stale /\ mousePressEvent(p[1], p[2]))
          => /\ gui_out' = << >>
             /\ selected_pos' = FromNoSelection(legal_moves, x_y_to_pos(p[1], p[2])).selected_pos
             /\ highlighted_square_items'
                    = FromNoSelection(legal_moves, x_y_to_pos(p[1], p[2])).highlighted]_vars

\* the six rows of the transition table, in their priority
TableNext(S, L, pos) ==
    IF S = None THEN FromNoSelection(L, pos)
    ELSE IF pos = S THEN [selected_pos |-> None, highlighted |-> {}]
    ELSE IF S \in DOMAIN L /\ pos \in L[S] THEN [selected_pos |-> None, highlighted |-> {}]
    ELSE IF pos \in DOMAIN L THEN [selected_pos |-> pos, highlighted |-> L[pos] \cup {pos}]
    ELSE [selected_pos |-> None, highlighted |-> {}]

\* C3: every click, in every reachable state, follows the six-row transition
\* table: the next selection state and the highlight set are those of the
\* first row that applies.
C3_ClickFollowsTable ==
    [][\A p \in ClickPoints :
          mousePressEvent(p[1], p[2])
          => LET t == TableNext(selected_pos, legal_moves, x_y_to_pos(p[1], p[2]))
             IN  /\ selected_pos' = t.selected_pos
                 /\ highlighted_square_items' = t.highlighted]_vars

\* the GUI thread printed a move in its last step
HasMoved(o) == \E i \in 1..Len(o) : o[i].ev = "Moved"

\* C4: a move-committed event is emitted exactly by a click at p in Selected(o)
\* with p # o and p in L[o]; it carries o and p, and leaves NoSelection with no
\* highlight; no other step emits one.
C4_MoveCommittedExactly ==
    [][/\ \A p \in ClickPoints :
            mousePressEvent(p[1], p[2])
            => LET pos == x_y_to_pos(p[1], p[2])
                   commits == /\ selected_pos # None
                              /\ pos # selected_pos
                              /\ selected_pos \in DOMAIN legal_moves
                              /\ pos \in legal_moves[selected_pos]
               IN  /\ commits <=> HasMoved(gui_out')
                   /\ commits => /\ gui_out' = << Moved(selected_pos, pos) >>
                                 /\ selected_pos' = None
                                 /\ highlighted_square_items' = {}
       /\ (HasMoved(gui_out') /\ gui_out' # gui_out) => Click]_vars

C4_Witness ==
    /\ gui_out = << Moved(e2, e4) >>
    /\ selected_pos = None
    /\ highlighted_square_items = {}

\* C5: the state becomes Selected(p) only by a click at p with p a key of the
\* index current at that click; no other step selects a square.
C5_SelectedOnlyByClickOnKey ==
    [][(selected_pos' # None /\ selected_pos' # selected_pos)
       => \E p \in ClickPoints :
            /\ mousePressEvent(p[1], p[2])
            /\ x_y_to_pos(p[1], p[2]) = selected_pos'
            /\ selected_pos' \in DOMAIN legal_moves]_vars

C5_Witness ==
    /\ selected_pos = g1
    /\ ~stale
    /\ highlighted_square_items = {g1, f3}

----------------------------------------------------------------------------
(* 'set fen' on its own: the reader thread has read one line {"set fen": f} *)

\* the fields of a FEN text, with what precedes and follows them
StartParts ==
    [lead |-> << >>, ranks |-> StartRanks, color |-> << "w" >>,
     castling |-> << "K", "Q", "k", "q" >>, ep |-> << "-" >>,
     half |-> << "0" >>, full |-> << "1" >>, trail |-> << >>]

TextOfParts(p) ==
    p.lead \o FenText(p.ranks, p.color, p.castling, p.ep, p.half, p.full) \o p.trail

RankPool ==
    { << "8" >>, << "4", "4" >>, << "5", "3" >>, << "7" >>, << "8", "p" >>, << "9" >>,
      << >>, << "4", "P", "3" >>, << "p", "7" >>, << "7", "K" >>, << "4", "p", "4" >>,
      << "1", "p", "1", "p", "1", "p", "1", "p" >>,
      << "p", "1", "p", "1", "p", "1", "p", "1" >>,
      << "p", "p", "p", "p", "p", "p", "p", "p", "p" >>,
      << "r", "n", "b", "q", "k", "b", "n" >>,
      << "R", "2", "K", "2", "x", "R" >>,
      << "Q", "1", "1", "5" >>, << "2", "k", "q", "3", "N" >> }

ColorPool == { << "w" >>, << "b" >>, << "W" >>, << >>, << "w", "b" >> }

CastlingPool ==
    { << "-" >>, << >>, << "K" >>, << "q" >>, << "Q", "k" >>, << "K", "Q", "k", "q" >>,
      << "Q", "K" >>, << "K", "K" >>, << "-", "-" >>, << "K", "-" >>, << "k", "q", "x" >> }

EpPool ==
    { << "-" >>, << "e", "3" >>, << "h", "8" >>, << "e", "9" >>, << "i", "3" >>,
      << "e" >>, << >>, << "e", "3", "3" >> }

HalfPool ==
    { << "0" >>, << "7" >>, << "1", "0" >>, << "9", "9" >>, << "0", "0" >>,
      << "0", "1" >>, << >>, << "-", "1" >> }

FullPool ==
    { << "1" >>, << "9" >>, << "1", "2", "0" >>, << "0" >>, << "0", "1" >>, << >>,
      << "1", "a" >> }

JunkPool == { << >>, << " " >>, << "x" >>, << "8", "/" >>, << " ", "1" >>, << "\n" >> }

\* two neighbouring ranks replaced
RankVariants ==
    { [StartParts EXCEPT !.ranks = [StartParts.ranks EXCEPT ![g] = r1, ![(g % 8) + 1] = r2]] :
        g \in 1..8, r1 \in RankPool, r2 \in RankPool }

\* the fields after the ranks replaced, two at a time
FieldVariants ==
    { [StartParts EXCEPT !.color = c, !.castling = k] : c \in ColorPool, k \in CastlingPool }
    \cup { [StartParts EXCEPT !.castling = k, !.ep = e] : k \in CastlingPool, e \in EpPool }
    \cup { [StartParts EXCEPT !.half = h, !.full = f] : h \in HalfPool, f \in FullPool }
    \cup { [StartParts EXCEPT !.ep = e, !.half = h] : e \in EpPool, h \in HalfPool }

\* text before and after the FEN
JunkVariants ==
    { [StartParts EXCEPT !.lead = l, !.trail = t, !.full = f] :
        l \in JunkPool, t \in JunkPool, f \in FullPool }

FenInputs == { TextOfParts(p) : p \in RankVariants \cup FieldVariants \cup JunkVariants }

InitFen ==
    /\ io_pc = "for"
    /\ \E f \in FenInputs : cmds = << Item("set fen", StrVal(f)) >>
    /\ cmd = ""
    /\ val = NullVal
    /\ move_history = << >>
    /\ out = << >>
    /\ nlines = 1
    /\ queue = << >>
    /\ GuiInit

NextFen == KeySetFen

SpecFen == InitFen /\ [][NextFen]_vars

----------------------------------------------------------------------------
(* FEN acceptance and the derived Position *)

\* the fields of s between the occurrences of sep
RECURSIVE Split(_, _)
Split(s, sep) ==
    IF \A i \in 1..Len(s) : s[i] # sep THEN << s >>
    ELSE LET i == CHOOSE i \in 1..Len(s) : s[i] = sep /\ \A j \in 1..(i - 1) : s[j] # sep
         IN  << SubSeq(s, 1, i - 1) >> \o Split(SubSeq(s, i + 1, Len(s)), sep)

\* the rank tokens of a FEN text
RankTokens(s) == Split(Split(s, " ")[1], "/")

KQkq == << "K", "Q", "k", "q" >>

\* "-" or the letters K, Q, k, q, each at most once and in that order
CastlingShape(c) ==
    \/ c = << "-" >>
    \/ \E S \in SUBSET {"K", "Q", "k", "q"} : c = SelectSeq(KQkq, LAMBDA x : x \in S)

\* 0 or a positive integer without a leading zero
CounterShape(n, zero_allowed) ==
    \/ zero_allowed /\ n = << "0" >>
    \/ /\ Len(n) >= 1
       /\ n[1] \in Digits19
       /\ \A i \in 2..Len(n) : n[i] \in Digits09

\* the whole text has the shape ranks color castling ep halfmove fullmove
GrammarShape(s) ==
    LET f == Split(s, " ")
    IN  /\ Len(f) = 6
        /\ Len(Split(f[1], "/")) = 8
        /\ \A g \in 1..8 :
             LET tok == Split(f[1], "/")[g]
             IN  Len(tok) \in 1..8 /\ \A i \in 1..Len(tok) : tok[i] \in RankChars
        /\ f[2] \in { << "w" >>, << "b" >> }
        /\ CastlingShape(f[3])
        /\ (f[4] = << "-" >> \/ f[4] \in Squares)
        /\ CounterShape(f[5], TRUE)
        /\ CounterShape(f[6], FALSE)

NoAdjacentDigits(tok) ==
    \A i \in 1..(Len(tok) - 1) : ~(tok[i] \in Digits18 /\ tok[i + 1] \in Digits18)

\* the squares the first n characters of a rank token cover
RECURSIVE Covered(_, _)
Covered(tok, n) ==
    IF n = 0 THEN 0
    ELSE Covered(tok, n - 1) + (IF tok[n] \in Digits18 THEN IntOf(tok[n]) ELSE 1)

RanksWellFormed(s) ==
    \A g \in 1..8 :
        /\ NoAdjacentDigits(RankTokens(s)[g])
        /\ Covered(RankTokens(s)[g], Len(RankTokens(s)[g])) = 8

ShouldAccept(s) ==
    /\ GrammarShape(s)
    /\ RanksWellFormed(s)
    /\ Split(s, " ")[3] # << >>

\* the 'set fen' branch has emitted a Position and then a GameState
FenEmitted ==
    /\ Len(queue) = 2
    /\ queue[1].sig = "set_position"
    /\ queue[2].sig = "set_game_state"

\* C6: a FEN is accepted exactly when the whole text has the grammar's shape,
\* no rank has two adjacent digits, every rank covers 8 squares and the
\* castling field is not empty; otherwise nothing is emitted.
C6_FenAcceptedIff ==
    (cmd = "set fen" /\ val.t = "str")
    => /\ FenEmitted <=> ShouldAccept(val.s)
       /\ ~ShouldAccept(val.s) => queue = << >>

\* rejected for two adjacent digits alone: the shape, the sums and the castling field are fine
C6_Witness ==
    /\ cmd = "set fen"
    /\ val.t = "str"
    /\ queue = << >>
    /\ GrammarShape(val.s)
    /\ Split(val.s, " ")[3] # << >>
    /\ \A g \in 1..8 : Covered(RankTokens(val.s)[g], Len(RankTokens(val.s)[g])) = 8

\* the pieces of rank token tok, as (index in the token, square) pairs, for board rank r
PlacesOf(tok, r) ==
    { << i, << ChrFromA(Covered(tok, i - 1)), r >> >> :
        i \in { j \in 1..Len(tok) : tok[j] \in PieceLetters } }

\* C7: the Position of an accepted FEN has only keys in a1..h8; the g-th rank
\* token fills rank 9-g, files from 'a' advancing 1 per piece and by the value
\* of a digit; a rank has as many entries as its token has piece letters, each
\* of them that letter.
C7_PositionMapping ==
    (cmd = "set fen" /\ queue # << >>)
    => LET pos == queue[1].pos
       IN  /\ DOMAIN pos \subseteq Squares
           /\ \A g \in 1..8 :
                LET tok == RankTokens(val.s)[g]
                    r == DigitStr[(9 - g) + 1]
                IN  /\ { sq \in DOMAIN pos : sq[2] = r } = { pl[2] : pl \in PlacesOf(tok, r) }
                    /\ Cardinality({ sq \in DOMAIN pos : sq[2] = r })
                         = Cardinality({ i \in 1..Len(tok) : tok[i] \in PieceLetters })
                    /\ \A pl \in PlacesOf(tok, r) : pos[pl[2]] = tok[pl[1]]

\* an accepted FEN other than the start position, with a piece after an empty run
C7_Witness ==
    /\ cmd = "set fen"
    /\ queue # << >>
    /\ RankTokens(val.s)[4] = << "4", "P", "3" >>
    /\ queue[1].pos[<< "e", "5" >>] = "P"
    /\ << "a", "5" >> \notin DOMAIN queue[1].pos

\* the characters of a run of n empty squares, n in 0..8
RunDigit(n) == IF n = 0 THEN << >> ELSE << DigitStr[n + 1] >>

\* rank r of a Position written as a rank token from file index f on, after a
\* run of n empty squares
RECURSIVE EncodeFrom(_, _, _, _)
EncodeFrom(pos, r, f, n) ==
    IF f > 8 THEN RunDigit(n)
    ELSE IF << LowerCase[f], r >> \in DOMAIN pos
         THEN RunDigit(n) \o << pos[<< LowerCase[f], r >>] >> \o EncodeFrom(pos, r, f + 1, 0)
         ELSE EncodeFrom(pos, r, f + 1, n + 1)

EncodeRank(pos, r) == EncodeFrom(pos, r, 1, 0)

\* the occupancy a rank token describes: one entry per square, "" for an empty one
RECURSIVE Occupancy(_)
Occupancy(tok) ==
    IF tok = << >> THEN << >>
    ELSE (IF Head(tok) \in Digits18
          THEN [i \in 1..IntOf(Head(tok)) |-> ""]
          ELSE << Head(tok) >>) \o Occupancy(Tail(tok))

\* C8: for an accepted FEN, each rank of the Position written back as a rank
\* token (pieces in file order, each maximal empty run as one digit) describes
\* the same occupancy of the 8 squares as the rank token that was parsed.
C8_RankRoundTrip ==
    (cmd = "set fen" /\ queue # << >>)
    => \A g \in 1..8 :
         LET enc == EncodeRank(queue[1].pos, DigitStr[(9 - g) + 1])
         IN  /\ Len(Occupancy(enc)) = 8
             /\ Occupancy(enc) = Occupancy(RankTokens(val.s)[g])

\* an accepted FEN with a rank of alternating pieces and single empty squares
C8_Witness ==
    /\ cmd = "set fen"
    /\ queue # << >>
    /\ \E g \in 1..8 :
         /\ RankTokens(val.s)[g] = << "1", "p", "1", "p", "1", "p", "1", "p" >>
         /\ EncodeRank(queue[1].pos, DigitStr[(9 - g) + 1]) = RankTokens(val.s)[g]

----------------------------------------------------------------------------
(* 'set legal moves' on its own: one line with the key, after an earlier one *)

\* e2e4, e2e3, g1f3, a1h8, xx, e2e4q, e9e4, e2
TokenPool ==
    { e2 \o e4, e2 \o e3, g1 \o f3, << "a", "1", "h", "8" >>, << "x", "x" >>,
      e2 \o e4 \o << "q" >>, << "e", "9" >> \o e4, e2 }

MoveLists == UNION { [1..n -> TokenPool] : n \in 0..MaxMoves }

\* the lists of the earlier 'set legal moves'
EarlierLists == { << >>, << << "a", "7", "a", "5" >>, e2 \o e5 >> }

InitMoves ==
    /\ io_pc = "for"
    /\ \E l1 \in EarlierLists, l2 \in MoveLists :
         cmds = << Item("set legal moves", ListVal(l1)),
                   Item("set legal moves", ListVal(l2)) >>
    /\ cmd = ""
    /\ val = NullVal
    /\ move_history = << >>
    /\ out = << >>
    /\ nlines = 1
    /\ queue = << >>
    /\ GuiInit

NextMoves == KeySetLegalMoves

SpecMoves == InitMoves /\ [][NextMoves]_vars

\* a token that is a Square followed by a Square
WellFormed(tok) ==
    Len(tok) = 4 /\ SubSeq(tok, 1, 2) \in Squares /\ SubSeq(tok, 3, 4) \in Squares

\* {s -> {t : s+t is a well-formed token of the list}}
IndexOf(l) ==
    LET good == { i \in 1..Len(l) : WellFormed(l[i]) }
    IN  [s \in { SubSeq(l[i], 1, 2) : i \in good }
           |-> { SubSeq(l[i], 3, 4) : i \in { j \in good : SubSeq(l[j], 1, 2) = s } }]

\* C9: the index emitted for a list of tokens is exactly IndexOf(list), whatever
\* was emitted before; keys and members are Squares; each malformed token is
\* printed once, in order, and the well-formed tokens around it are kept.
C9_LegalMoveIndexExact ==
    (cmd = "set legal moves" /\ val.t = "list")
    => LET built == queue[Len(queue)].lm
       IN  /\ queue[Len(queue)].sig = "set_legal_moves"
           /\ built = IndexOf(val.l)
           /\ DOMAIN built \subseteq Squares
           /\ \A s \in DOMAIN built : built[s] \subseteq Squares /\ built[s] # {}
           /\ out = [i \in 1..Len(out) |-> Printed("Unrecognized move", out[i].arg)]
           /\ [i \in 1..Len(out) |-> out[i].arg] = SelectSeq(val.l, LAMBDA t : ~WellFormed(t))

\* ["e2e4", "xx", "e2e3"] after an earlier list with other sources
C9_Witness ==
    /\ cmd = "set legal moves"
    /\ val.l = << e2 \o e4, << "x", "x" >>, e2 \o e3 >>
    /\ Len(queue) = 2
    /\ DOMAIN queue[1].lm = { << "a", "7" >>, e2 }
    /\ queue[2].lm = (e2 :> {e4, e3})
    /\ Len(out) = 1

----------------------------------------------------------------------------
(* The move history on its own: lines with one history command each *)

HistoryLines ==
    { << Item("append history", ListVal(<< >>)) >>,
      << Item("append history", ListVal(<< San_e4 >>)) >>,
      << Item("append history", ListVal(<< San_e4, San_e5 >>)) >>,
      << Item("undo history", NullVal) >>,
      << Item("set history", ListVal(<< >>)) >>,
      << Item("set history", ListVal(<< San_Nf3 >>)) >>,
      << Item("set history", ListVal(<< San_Nf3, San_e5 >>)) >>,
      << Item("undo history", NullVal), Item("append history", ListVal(<< San_e5 >>)) >> }

NextHistory ==
    \/ \E line \in HistoryLines : ReadObject(line)
    \/ KeyAppendHistory
    \/ KeyUndoHistory
    \/ KeySetHistory

SpecHistory == Init /\ [][NextHistory]_vars

\* the log after one command, as the MoveHistoryLog operations are defined
LogAfter(log, c, moves) ==
    IF c = "append history" THEN log \o moves
    ELSE IF c = "undo history"
         THEN (IF log = << >> THEN << >> ELSE [i \in 1..(Len(log) - 1) |-> log[i]])
    ELSE IF c = "set history" THEN moves
    ELSE log

HistoryStep == KeyAppendHistory \/ KeyUndoHistory \/ KeySetHistory

\* C10: starting from the empty log, every history command takes the log to
\* the log the reference operation gives (append concatenates, undo drops the
\* last element or does nothing on the empty log, set replaces), without
\* failing, and no other step changes the log.
C10_HistoryFollowsReference ==
    [][/\ HistoryStep => /\ move_history' = LogAfter(move_history, cmd', val'.l)
                         /\ io_pc' # "crashed"
       /\ ~HistoryStep => move_history' = move_history]_vars

\* set [Nf3], append [e4, e5], undo
C10_Witness ==
    /\ cmd = "undo history"
    /\ nlines = 3
    /\ move_history = << San_Nf3, San_e4 >>

----------------------------------------------------------------------------
(* The move history view on its own: two queued histories are rendered *)

SanPool == << San_e4, San_e5, San_Nf3 >>

\* the histories of SanPool moves up to MaxLog half-moves, and three long enough
\* for two-digit move numbers
RenderLogs ==
    UNION { [1..n -> { San_e4, San_e5, San_Nf3 }] : n \in 0..MaxLog }
    \cup { [i \in 1..n |-> SanPool[(i % 3) + 1]] : n \in { 19, 20, 21 } }

EarlierLogs == { << >>, << San_Nf3 >>, << San_e5, San_e4, San_e4, San_Nf3 >> }

\* the reader thread has processed 'set history' twice, nothing is delivered yet
InitRender ==
    /\ GuiInit
    /\ \E l1 \in EarlierLogs, l2 \in RenderLogs :
          /\ queue = << set_move_history_signal(l1), set_move_history_signal(l2) >>
          /\ move_history = l2
          /\ val = ListVal(l2)
    /\ io_pc = "input"
    /\ cmds = << >>
    /\ cmd = "set history"
    /\ out = << >>
    /\ nlines = 2

NextRender == SlotSetMoveHistory

SpecRender == InitRender /\ [][NextRender]_vars

\* the decimal numeral of n: the digits without a leading zero whose value is n
Numeral(n) ==
    CHOOSE d \in [1..1 -> Digits09] \cup [1..2 -> Digits19 \cup { "0" }] :
        IF Len(d) = 1 THEN IntOf(d[1]) = n
        ELSE d[1] # "0" /\ 10 * IntOf(d[1]) + IntOf(d[2]) = n

\* the lines of a rendered log: line j holds half-moves 2j-1 and 2j
NumberedPairs(log) ==
    [j \in 1..((Len(log) + 1) \div 2) |->
        Numeral(j) \o << ".", " " >> \o log[2 * j - 1]
        \o (IF 2 * j <= Len(log) THEN << " " >> \o log[2 * j] ELSE << >>)]

\* C11: rendering a log gives one line per full move, "<j>. " followed by
\* half-move 2j-1 and, after a single space, half-move 2j; every line with an
\* even half-move is ended by a line break, a last unpaired half-move's line
\* is not; the text depends on the log passed in only, not on what was
\* rendered before.
C11_RenderNumberedPairs ==
    [][SlotSetMoveHistory =>
         Split(history_shown', "\n")
           = NumberedPairs(Head(queue).mh)
             \o (IF Len(Head(queue).mh) % 2 = 0 THEN << << >> >> ELSE << >>)]_vars

\* [e4, e5, Nf3] rendered as "1. e4 e5" and "2. Nf3", after an earlier render
C11_Witness ==
    /\ queue = << >>
    /\ history_shown = << "1", ".", " ", "e", "4", " ", "e", "5", "\n",
                          "2", ".", " ", "N", "f", "3" >>

----------------------------------------------------------------------------
(* The read loop on bad input and at the end of input *)

\* a step of a recognized key whose value has not the type the command takes
BadValueStep ==
    \/ KeySetFen /\ val'.t # "str"
    \/ KeyAppendHistory /\ val'.t # "list"
    \/ KeySetLegalMoves /\ val'.t # "list"

\* C12: the read loop ends by 'quit' or by the end of input only, and a line
\* that is no JSON or no JSON object, a recognized key with a value of an
\* unexpected type and an unrecognized key change neither the log nor the
\* queued notifications nor anything on the rendering side.
C12_ReadLoopSurvivesBadInput ==
    [][/\ (io_pc \in { "input", "for" } /\ io_pc' \notin { "input", "for" })
           => (KeyQuit \/ ReadEOF)
       /\ (ReadInvalidJson \/ ReadNonObject \/ KeyUnrecognized \/ BadValueStep)
           => (UNCHANGED << move_history, queue >> /\ UNCHANGED gui_vars)]_vars

\* C13: at the end of input the read loop ends as it does on 'quit', with the
\* shutdown notification emitted.
C13_EofIsQuit ==
    [][ReadEOF => (io_pc' = "done" /\ queue' = Append(queue, quit_app_signal))]_vars

----------------------------------------------------------------------------
(* Order of the notifications *)

SlotStep ==
    SlotSetPosition \/ SlotSetGameState \/ SlotSetLegalMoves \/ SlotSetMoveHistory \/ SlotQuit

\* the rendering side shows, after the step, what notification e carries
Applied(e) ==
    CASE e.sig = "set_position" -> piece_items' = e.pos
      [] e.sig = "set_game_state" -> game_state' = e.gs
      [] e.sig = "set_legal_moves" -> legal_moves' = e.lm
      [] e.sig = "set_move_history" -> history_shown' = set_move_history(e.mh)
      [] e.sig = "quit" -> ~app_running'

\* q extends p at its end
IsPrefix(p, q) == Len(p) <= Len(q) /\ SubSeq(q, 1, Len(p)) = p

\* C14: the rendering side applies the notifications in the order of their
\* emission: every slot step applies the oldest notification not yet applied
\* and removes it, every other step leaves the pending ones in place and adds
\* new ones behind them; so when nothing is pending after an accepted
\* 'set fen', the board and the game state are those of that last command.
C14_FifoDelivery ==
    /\ [][/\ SlotStep => (queue # << >> /\ Applied(Head(queue)) /\ queue' = Tail(queue))
          /\ ~SlotStep => IsPrefix(queue, queue')]_vars
    /\ []((queue = << >> /\ cmd = "set fen" /\ val.t = "str" /\ FenAccepted(val.s))
           => (/\ piece_items = fen_to_populated_squares(FEN_REGEX(val.s))
               /\ game_state = GameStateOf(FEN_REGEX(val.s))))

\* two accepted 'set fen' were emitted before anything was applied; the first
\* Position is shown, the second is still behind the first GameState
C14_Witness ==
    /\ Len(queue) = 3
    /\ queue[1].sig = "set_game_state"
    /\ queue[2].sig = "set_position"
    /\ queue[2].pos = fen_to_populated_squares(FEN_REGEX(AfterE4Fen))
    /\ piece_items = fen_to_populated_squares(FEN_REGEX(StartFen))

----------------------------------------------------------------------------
(* Shutdown *)

\* C15: the 'quit' branch emits the shutdown notification and ends the read
\* loop: afterwards the reader thread reads no line, processes no key (the
\* rest of the line stays unprocessed) and emits nothing; when the
\* application exits on the shutdown notification, every notification
\* emitted before it has been applied (nothing is pending).
C15_QuitEndsLoopAndFlushes ==
    /\ [][/\ KeyQuit => (io_pc' = "done" /\ queue' = Append(queue, quit_app_signal))
          /\ io_pc = "done" => (/\ UNCHANGED io_vars
                                /\ (queue' = queue \/ queue' = Tail(queue)))
          /\ (app_running /\ ~app_running')
                => (queue # << >> /\ Head(queue) = quit_app_signal /\ queue' = << >>)]_vars
    /\ [](~app_running => (queue = << >> /\ io_pc = "done"))

\* {"set fen": start} then {"quit": null, "set history": ["e4"]}: the
\* application has exited with the position applied and 'set history' unprocessed
C15_Witness ==
    /\ ~app_running
    /\ io_pc = "done"
    /\ cmds = << Item("set history", ListVal(<< San_e4 >>)) >>
    /\ move_history = << >>
    /\ piece_items = fen_to_populated_squares(FEN_REGEX(StartFen))
    /\ game_state = GameStateOf(FEN_REGEX(StartFen))

----------------------------------------------------------------------------
(* Rejected commands *)

\* a 'set fen' step whose text the acceptance rules reject
RejectedFenStep == KeySetFen /\ val'.t = "str" /\ ~ShouldAccept(val'.s)

\* C16: a 'set fen' whose text is rejected (no grammar shape, a rank rule
\* violated or an empty castling field) emits nothing and leaves the shown
\* Position, the GameState, the LegalMoveIndex, the selection, the highlights
\* and the move history log (and its view) as they were.
C16_RejectedFenChangesNothing ==
    [][RejectedFenStep =>
         UNCHANGED << queue, piece_items, game_state, legal_moves, selected_pos,
                      highlighted_square_items, move_history, history_shown >>]_vars

\* the FEN with the empty castling field was rejected while the start position
\* and a move history were shown
C16_Witness ==
    /\ cmd = "set fen"
    /\ val = StrVal(NoCastlingFen)
    /\ queue = << >>
    /\ piece_items = fen_to_populated_squares(FEN_REGEX(StartFen))
    /\ move_history # << >>
    /\ history_shown # << >>

\* the tokens of a 'set legal moves' list that are not two squares
MalformedTokens(moves) == SelectSeq(moves, LAMBDA tok : ~WellFormed(tok))

\* C17: every rejection gives a diagnostic: a line that is no JSON, a
\* 'set fen' whose text is rejected, every malformed token of a
\* 'set legal moves' list and every unrecognized key print at least one
\* message, and an unrecognized key changes nothing and emits nothing.
C17_RejectionHasDiagnostic ==
    [][/\ ReadInvalidJson => out' # << >>
       /\ RejectedFenStep => out' # << >>
       /\ (KeySetLegalMoves /\ val'.t = "list")
             => [i \in 1..Len(out') |-> out'[i].arg] = MalformedTokens(val'.l)
       /\ KeyUnrecognized => /\ out' # << >>
                              /\ UNCHANGED << move_history, queue >>
                              /\ UNCHANGED gui_vars]_vars

----------------------------------------------------------------------------
(* Lines with several keys *)

KeyStep ==
    \/ KeySetFen \/ KeyAppendHistory \/ KeyUndoHistory \/ KeySetHistory
    \/ KeySetLegalMoves \/ KeyQuit \/ KeyUnrecognized

\* the notifications key c with value v gives on its own when the log is h
EmittedAlone(c, v, h) ==
    IF c = "set fen" /\ v.t = "str" /\ ShouldAccept(v.s)
    THEN << set_position_signal(fen_to_populated_squares(FEN_REGEX(v.s))),
            set_game_state_signal(GameStateOf(FEN_REGEX(v.s))) >>
    ELSE IF c = "set legal moves" /\ v.t = "list"
    THEN << set_legal_moves_signal(IndexOf(v.l)) >>
    ELSE IF c \in { "append history", "set history" } /\ v.t = "list"
    THEN << set_move_history_signal(LogAfter(h, c, v.l)) >>
    ELSE IF c = "undo history" /\ h # << >>
    THEN << set_move_history_signal(LogAfter(h, c, v.l)) >>
    ELSE << >>

\* C18: the keys of a line are processed one by one in the order of the
\* object: every step of a key other than 'quit' takes the first key not yet
\* processed, changes the log and emits exactly what that key does on its
\* own in the state the previous key left, and hands over to the next key of
\* the line (or to the next line after the last key), also when the key was
\* rejected or unrecognized.
C18_KeysInOrder ==
    [][(KeyStep /\ Head(cmds).cmd # "quit") =>
         /\ cmd' = Head(cmds).cmd
         /\ val' = Head(cmds).val
         /\ cmds' = Tail(cmds)
         /\ move_history' = LogAfter(move_history, cmd', val'.l)
         /\ queue' = queue \o EmittedAlone(cmd', val', move_history)
         /\ io_pc' = (IF cmds' = << >> THEN "input" ELSE "for")]_vars

----------------------------------------------------------------------------
(* The notifications of an accepted 'set fen' *)

\* C19: an accepted 'set fen' emits exactly two notifications, a Position and
\* then a GameState, and the GameState's active color, castling rights,
\* en-passant target, half-move clock and full-move number are the second to
\* sixth space-separated fields of the FEN text.
C19_FenEmitsPositionThenGameState ==
    [][(KeySetFen /\ val'.t = "str" /\ ShouldAccept(val'.s)) =>
         /\ Len(queue') = Len(queue) + 2
         /\ SubSeq(queue', 1, Len(queue)) = queue
         /\ queue'[Len(queue) + 1].sig = "set_position"
         /\ queue'[Len(queue) + 2].sig = "set_game_state"
         /\ LET f == Split(val'.s, " ")
                gs == queue'[Len(queue) + 2].gs
            IN  /\ gs.Turn = f[2]
                /\ gs.Castling = f[3]
                /\ gs.EnPassant = f[4]
                /\ gs.HalfMove = f[5]
                /\ gs.FullMove = f[6]]_vars

\* the start position with half-move clock 10 and full-move number 120
C19_Witness ==
    /\ cmd = "set fen"
    /\ Len(queue) = 2
    /\ queue[1].sig = "set_position"
    /\ queue[2].gs = [Turn |-> << "w" >>, Castling |-> << "K", "Q", "k", "q" >>,
                       EnPassant |-> << "-" >>, HalfMove |-> << "1", "0" >>,
                       FullMove |-> << "1", "2", "0" >>]

----------------------------------------------------------------------------
(* The move history shown *)

\* a history notification is emitted and not yet applied
HistoryPending == \E i \in 1..Len(queue) : queue[i].sig = "set_move_history"

\* C20: 'append history' and 'set history' with a list emit a history
\* notification carrying the whole log after the command; 'undo history'
\* emits one carrying the shortened log when the log was not empty and
\* otherwise emits nothing and changes nothing; so whenever no history
\* notification is pending, the text shown by the history view is the
\* rendering of the reader thread's log.
C20_ShownHistoryTracksLog ==
    /\ [][/\ ((KeyAppendHistory \/ KeySetHistory) /\ val'.t = "list")
                => queue' = Append(queue, set_move_history_signal(move_history'))
          /\ KeyUndoHistory
                => IF move_history = << >>
                   THEN UNCHANGED << move_history, queue >>
                   ELSE /\ Len(move_history') = Len(move_history) - 1
                        /\ queue' = Append(queue, set_move_history_signal(move_history'))]_vars
    /\ [](~HistoryPending => history_shown = set_move_history(move_history))

\* set [Nf3], append [e4, e5], undo, all applied: "1. Nf3 e4" and a line break
C20_Witness ==
    /\ queue = << >>
    /\ cmd = "undo history"
    /\ move_history = << San_Nf3, San_e4 >>
    /\ history_shown = << "1", ".", " ", "N", "f", "3", " ", "e", "4", "\n" >>

----------------------------------------------------------------------------
(* The selection and the index *)

\* the selected square is a key of the index and it and its targets are the
\* highlighted squares; without a selection nothing is highlighted
SelectionConsistent ==
    /\ selected_pos # None
          => /\ selected_pos \in DOMAIN legal_moves
             /\ highlighted_square_items = legal_moves[selected_pos] \cup { selected_pos }
    /\ selected_pos = None => highlighted_square_items = {}

\* C21: in every reachable state a selected square is a key of the current
\* LegalMoveIndex and the highlighted squares are it and its targets, without
\* a selection nothing is highlighted, and no click has failed on the lookup
\* of the selected square.
C21_SelectionInvariant ==
    /\ SelectionConsistent
    /\ gui_out # << KeyError >>

----------------------------------------------------------------------------
(* The index after a committed move *)

\* the state a committed move leaves: no selection and an empty index
Spent == selected_pos = None /\ legal_moves = EmptyDict

\* C22: a click that commits a move leaves the rendering side with an empty
\* LegalMoveIndex and no selection; from there a click neither selects a
\* square nor commits a move, and the index stays empty until a
\* 'set legal moves' notification is applied; so no second move is committed
\* on the same installed index.
C22_CommitSpendsIndex ==
    [][/\ (Click /\ HasMoved(gui_out')) => Spent'
       /\ (Spent /\ Click) => (Spent' /\ ~HasMoved(gui_out'))
       /\ (Spent /\ ~SlotSetLegalMoves) => Spent']_vars

\* the index of ["e2e4", "e4e5", "g1f3"] was installed, a move was committed
\* on it and a later click did nothing
C22_Witness ==
    /\ Spent
    /\ gui_out = << >>
    /\ highlighted_square_items = {}
    /\ cmd = "set legal moves"
    /\ val = ListVal(MovesA)
    /\ queue = << >>
    /\ nlines = 1
    /\ io_pc = "input"

====
